---------------------------- MODULE Spec2Model ----------------------------
(***************************************************************************)
(* Settings state and reducer of asselect3 (src/state.rs).                 *)
(*                                                                         *)
(* A Rust String that is only compared for equality (the `name` of an      *)
(* action) is a TLA+ string.  A String that the code also parses (the      *)
(* `value` of Action::Set) is the sequence of its characters, so that      *)
(* str::parse::<u16> is computed digit by digit.                           *)
(* Option<T> is a sequence of length 0 (None) or 1 (Some(x)).              *)
(***************************************************************************)
EXTENDS Integers, Sequences, FiniteSets, TLC

VARIABLES
    settings,   \* State.settings held by the host runtime
    prev,       \* the snapshot `self.settings` the last reduce call was given
    action,     \* the Action the last reduce call was given
    outcome,    \* "ok": reduce returned; "panic": reduce unwound at unwrap()
    steps,      \* number of actions dispatched so far
    ticked,     \* per named set, the names whose latest SetX/ClearX action
                \* in the dispatched sequence is SetX{name, true}
    stored      \* the serialized Settings last written, <<>> when none

vars == <<settings, prev, action, outcome, steps, ticked, stored>>

\* Number of actions dispatched in one behaviour.
MaxSteps == 2

\* u16::MAX, the largest value of Settings.max_level.
U16_MAX == 65535

---------------------------------------------------------------------------
\* Option<T>
None == <<>>
Some(x) == <<x>>
UnwrapOr(opt, default) == IF opt = None THEN default ELSE opt[1]
Unwrap(opt) == opt[1]
Option(S) == {None} \cup {Some(x) : x \in S}

---------------------------------------------------------------------------
\* String literals of the source, as character sequences.
V_classd == <<"c","l","a","s","s","d">>
V_classf == <<"c","l","a","s","s","f">>
V_classg == <<"c","l","a","s","s","g">>
V_ctr == <<"c","t","r">>
V_danger == <<"d","a","n","g","e","r">>
V_restricted == <<"r","e","s","t","r","i","c","t","e","d">>
V_gsec == <<"g","s","e","c">>
V_yes == <<"y","e","s">>
V_no == <<"n","o">>
V_fl195 == <<"f","l","1","9","5">>
V_fl105 == <<"f","l","1","0","5">>
V_atzdz == <<"a","t","z","d","z">>
V_ratonly == <<"r","a","t","o","n","l","y">>
V_competition == <<"c","o","m","p","e","t","i","t","i","o","n">>

\* Further value strings a caller can send.
V_empty == <<>>
V_bogus == <<"b","o","g","u","s">>
V_Yes == <<"Y","e","s">>
V_true == <<"t","r","u","e">>
V_No == <<"N","o">>
V_Foo == <<"F","o","o">>
V_openair == <<"o","p","e","n","a","i","r">>
V_0 == <<"0">>
V_65535 == <<"6","5","5","3","5">>
V_65536 == <<"6","5","5","3","6">>
V_minus1 == <<"-","1">>

\* The values of Action::Set.value the model draws from.
Values ==
    { V_classd, V_classf, V_classg, V_ctr, V_danger, V_restricted, V_gsec,
      V_yes, V_no, V_fl195, V_fl105, V_atzdz, V_ratonly, V_competition,
      V_empty, V_bogus, V_Yes, V_true, V_No, V_Foo, V_openair,
      V_0, V_65535, V_65536, V_minus1 }

\* The names of Action::Set.name the model draws from: the twelve keys of
\* the match and three names it does not list.
Keys ==
    { "atz", "ils", "unlicensed", "microlight", "gliding", "hirta_gvs",
      "obstacle", "max_level", "radio", "home", "overlay", "format",
      "ATZ", "Radio", "loa" }

\* The names of SetLoa/SetRat/SetWave the model draws from.
Names == { "A", "R1", "R2" }

---------------------------------------------------------------------------
\* enum AirType
AirType ==
    { "ClassA", "ClassB", "ClassC", "ClassD", "ClassE", "ClassF", "ClassG",
      "Danger", "Cta", "Ctr", "Gliding", "Matz", "Other", "Prohibited",
      "Restricted", "Rmz", "Tmz" }

\* enum Format
Format == { "OpenAir", "RatOnly", "Competition" }

\* enum Overlay
Overlay == { "FL195", "FL105", "AtzDz" }

\* struct Settings
Settings ==
    [ atz : AirType,
      ils : Option(AirType),
      unlicensed : Option(AirType),
      microlight : Option(AirType),
      gliding : Option(AirType),
      home : Option(Values),
      hirta_gvs : Option(AirType),
      obstacle : Option(AirType),
      max_level : 0..U16_MAX,
      radio : BOOLEAN,
      format : Format,
      overlay : Option(Overlay),
      loa : SUBSET Names,
      rat : SUBSET Names,
      wave : SUBSET Names ]

\* Settings::default with max_level left at the zero of u16.
DefaultZeroLevel ==
    [ atz |-> "Ctr",
      ils |-> None,
      unlicensed |-> None,
      microlight |-> None,
      gliding |-> None,
      home |-> None,
      hirta_gvs |-> None,
      obstacle |-> None,
      max_level |-> 0,
      radio |-> FALSE,
      format |-> "OpenAir",
      overlay |-> None,
      loa |-> {},
      rat |-> {},
      wave |-> {} ]

\* impl Default for Settings
Default ==
    [ atz |-> "Ctr",
      ils |-> None,
      unlicensed |-> None,
      microlight |-> None,
      gliding |-> None,
      home |-> None,
      hirta_gvs |-> None,
      obstacle |-> None,
      max_level |-> 660,
      radio |-> FALSE,
      format |-> "OpenAir",
      overlay |-> None,
      loa |-> {},
      rat |-> {},
      wave |-> {} ]

---------------------------------------------------------------------------
\* enum Action.  Every action is a record of the same shape; the fields a
\* variant does not carry hold a filler.
Set(name, value) ==
    [type |-> "Set", name |-> name, value |-> value, checked |-> FALSE]
SetLoa(name, checked) ==
    [type |-> "SetLoa", name |-> name, value |-> <<>>, checked |-> checked]
SetRat(name, checked) ==
    [type |-> "SetRat", name |-> name, value |-> <<>>, checked |-> checked]
SetWave(name, checked) ==
    [type |-> "SetWave", name |-> name, value |-> <<>>, checked |-> checked]
ClearLoa == [type |-> "ClearLoa", name |-> "", value |-> <<>>, checked |-> FALSE]
ClearRat == [type |-> "ClearRat", name |-> "", value |-> <<>>, checked |-> FALSE]
ClearWave == [type |-> "ClearWave", name |-> "", value |-> <<>>, checked |-> FALSE]
\* No action dispatched yet.
NoAction == [type |-> "None", name |-> "", value |-> <<>>, checked |-> FALSE]

---------------------------------------------------------------------------
\* get_airtype with "ctr" mistyped as AirType::Cta.
get_airtype_cta(value) ==
    CASE value = V_classd -> Some("ClassD")
      [] value = V_classf -> Some("ClassF")
      [] value = V_classg -> Some("ClassG")
      [] value = V_ctr -> Some("Cta")
      [] value = V_danger -> Some("Danger")
      [] value = V_restricted -> Some("Restricted")
      [] value = V_gsec -> Some("Gliding")
      [] OTHER -> None

\* get_airtype without its "gsec" arm.
get_airtype_no_gsec(value) ==
    CASE value = V_classd -> Some("ClassD")
      [] value = V_classf -> Some("ClassF")
      [] value = V_classg -> Some("ClassG")
      [] value = V_ctr -> Some("Ctr")
      [] value = V_danger -> Some("Danger")
      [] value = V_restricted -> Some("Restricted")
      [] OTHER -> None

\* fn get_airtype(value: &str) -> Option<AirType>
get_airtype(value) ==
    CASE value = V_classd -> Some("ClassD")
      [] value = V_classf -> Some("ClassF")
      [] value = V_classg -> Some("ClassG")
      [] value = V_ctr -> Some("Ctr")
      [] value = V_danger -> Some("Danger")
      [] value = V_restricted -> Some("Restricted")
      [] value = V_gsec -> Some("Gliding")
      [] OTHER -> None

\* char::to_digit(10)
Digits == { "0", "1", "2", "3", "4", "5", "6", "7", "8", "9" }
DigitVal(c) ==
    CASE c = "0" -> 0 [] c = "1" -> 1 [] c = "2" -> 2 [] c = "3" -> 3
      [] c = "4" -> 4 [] c = "5" -> 5 [] c = "6" -> 6 [] c = "7" -> 7
      [] c = "8" -> 8 [] c = "9" -> 9

\* The digit loop with the overflow test off by one: u16::MAX itself is
\* rejected.
RECURSIVE ParseDigitsBelowMax(_, _)
ParseDigitsBelowMax(digits, acc) ==
    IF digits = <<>> THEN Some(acc)
    ELSE IF Head(digits) \notin Digits THEN None
    ELSE IF acc * 10 + DigitVal(Head(digits)) >= U16_MAX THEN None
    ELSE ParseDigitsBelowMax(Tail(digits), acc * 10 + DigitVal(Head(digits)))

\* The digit loop of u16::from_str: checked_mul(10) then checked_add(digit);
\* a character that is no digit, or a result above u16::MAX, is an Err.
RECURSIVE ParseDigits(_, _)
ParseDigits(digits, acc) ==
    IF digits = <<>> THEN Some(acc)
    ELSE IF Head(digits) \notin Digits THEN None
    ELSE IF acc * 10 + DigitVal(Head(digits)) > U16_MAX THEN None
    ELSE ParseDigits(Tail(digits), acc * 10 + DigitVal(Head(digits)))

\* value.parse::<u16>(): Err on the empty string and on a lone sign; one
\* leading "+" is accepted, a "-" is an invalid digit of an unsigned type.
\* Ok(n) is Some(n), Err(_) is None.
ParseU16(value) ==
    IF value = <<>> THEN None
    ELSE IF Head(value) = "+"
         THEN IF Tail(value) = <<>> THEN None ELSE ParseDigits(Tail(value), 0)
         ELSE ParseDigits(value, 0)

\* value.eq_ignore_ascii_case("yes")
RadioValueIgnoreCase(value) == value \in {V_yes, V_Yes}

\* value == "yes"
RadioValue(value) == value = V_yes

\* Some(value), without the test for "no".
HomeValueVerbatim(value) == Some(value)

\* if value == "no" || value.is_empty() { None } else { Some(value) }
HomeValueEmptyIsNone(value) ==
    IF value = V_no \/ value = V_empty THEN None ELSE Some(value)

\* if value == "no" { None } else { Some(value) }
HomeValue(value) == IF value = V_no THEN None ELSE Some(value)

\* The overlay match with the "fl105" arm returning Overlay::FL195.
OverlayValueCopiedArm(value) ==
    CASE value = V_fl195 -> Some("FL195")
      [] value = V_fl105 -> Some("FL195")
      [] value = V_atzdz -> Some("AtzDz")
      [] OTHER -> None

\* match value.as_str() { "fl195" => ..., _ => None }
OverlayValue(value) ==
    CASE value = V_fl195 -> Some("FL195")
      [] value = V_fl105 -> Some("FL105")
      [] value = V_atzdz -> Some("AtzDz")
      [] OTHER -> None

\* The format match without its "competition" arm.
FormatValueNoCompetition(value) ==
    CASE value = V_ratonly -> "RatOnly"
      [] OTHER -> "OpenAir"

\* match value.as_str() { "ratonly" => ..., _ => Format::OpenAir }
FormatValue(value) ==
    CASE value = V_ratonly -> "RatOnly"
      [] value = V_competition -> "Competition"
      [] OTHER -> "OpenAir"

\* get_airtype(&value).unwrap_or(AirType::Other)
AtzValueOrOther(value) == UnwrapOr(get_airtype(value), "Other")

\* get_airtype(&value).unwrap_or(AirType::Ctr)
AtzValue(value) == UnwrapOr(get_airtype(value), "Ctr")

\* match name.to_lowercase().as_str()
MatchArmIgnoreCase(name) ==
    IF name \in { "atz", "ils", "unlicensed", "microlight", "gliding",
                  "hirta_gvs", "obstacle", "max_level", "radio", "home",
                  "overlay", "format" }
    THEN name
    ELSE IF name = "ATZ" THEN "atz"
    ELSE IF name = "Radio" THEN "radio"
    ELSE "_"

\* The arm of `match name.as_str()` that a name selects: the key itself, or
\* "_" for the catch-all arm.
MatchArm(name) ==
    IF name \in { "atz", "ils", "unlicensed", "microlight", "gliding",
                  "hirta_gvs", "obstacle", "max_level", "radio", "home",
                  "overlay", "format" }
    THEN name ELSE "_"

\* The arm Action::Set with the "unlicensed" arm a copy of the "ils" arm: it
\* assigns set.ils.
SetFieldArmCopied(set, name, value) ==
    CASE MatchArm(name) = "atz" -> [set EXCEPT !.atz = AtzValue(value)]
      [] MatchArm(name) = "ils" -> [set EXCEPT !.ils = get_airtype(value)]
      [] MatchArm(name) = "unlicensed" ->
            [set EXCEPT !.ils = get_airtype(value)]
      [] MatchArm(name) = "microlight" ->
            [set EXCEPT !.microlight = get_airtype(value)]
      [] MatchArm(name) = "gliding" ->
            [set EXCEPT !.gliding = get_airtype(value)]
      [] MatchArm(name) = "hirta_gvs" ->
            [set EXCEPT !.hirta_gvs = get_airtype(value)]
      [] MatchArm(name) = "obstacle" ->
            [set EXCEPT !.obstacle = get_airtype(value)]
      [] MatchArm(name) = "max_level" ->
            [set EXCEPT !.max_level = Unwrap(ParseU16(value))]
      [] MatchArm(name) = "radio" -> [set EXCEPT !.radio = RadioValue(value)]
      [] MatchArm(name) = "home" -> [set EXCEPT !.home = HomeValue(value)]
      [] MatchArm(name) = "overlay" ->
            [set EXCEPT !.overlay = OverlayValue(value)]
      [] MatchArm(name) = "format" ->
            [set EXCEPT !.format = FormatValue(value)]
      [] OTHER -> set

\* The arm Action::Set, when no unwrap() in it panics.
SetField(set, name, value) ==
    CASE MatchArm(name) = "atz" -> [set EXCEPT !.atz = AtzValue(value)]
      [] MatchArm(name) = "ils" -> [set EXCEPT !.ils = get_airtype(value)]
      [] MatchArm(name) = "unlicensed" ->
            [set EXCEPT !.unlicensed = get_airtype(value)]
      [] MatchArm(name) = "microlight" ->
            [set EXCEPT !.microlight = get_airtype(value)]
      [] MatchArm(name) = "gliding" ->
            [set EXCEPT !.gliding = get_airtype(value)]
      [] MatchArm(name) = "hirta_gvs" ->
            [set EXCEPT !.hirta_gvs = get_airtype(value)]
      [] MatchArm(name) = "obstacle" ->
            [set EXCEPT !.obstacle = get_airtype(value)]
      [] MatchArm(name) = "max_level" ->
            [set EXCEPT !.max_level = Unwrap(ParseU16(value))]
      [] MatchArm(name) = "radio" -> [set EXCEPT !.radio = RadioValue(value)]
      [] MatchArm(name) = "home" -> [set EXCEPT !.home = HomeValue(value)]
      [] MatchArm(name) = "overlay" ->
            [set EXCEPT !.overlay = OverlayValue(value)]
      [] MatchArm(name) = "format" ->
            [set EXCEPT !.format = FormatValue(value)]
      [] OTHER -> set

\* if checked { set.replace(name) }: the else branch is lost.
SetMemberNeverRemoves(hs, name, checked) ==
    IF checked THEN hs \cup {name} ELSE hs

\* if checked { flip the membership of name } else { set.remove(&name) }
SetMemberFlips(hs, name, checked) ==
    IF checked
    THEN IF name \in hs THEN hs \ {name} ELSE hs \cup {name}
    ELSE hs \ {name}

\* if checked { set.replace(name) } else { set.remove(&name) }
SetMember(hs, name, checked) ==
    IF checked THEN hs \cup {name} ELSE hs \ {name}

\* HashSet::clear replaced by HashSet::shrink_to_fit: the contents stay.
ClearKeepsContents(hs) == hs

\* HashSet::clear
Clear(hs) == {}

\* reduce with `get_airtype(&value).unwrap()` in the "atz" arm.
ReducePanicsOnAtz(a) ==
    /\ a.type = "Set"
    /\ \/ MatchArm(a.name) = "max_level" /\ ParseU16(a.value) = None
       \/ MatchArm(a.name) = "atz" /\ get_airtype(a.value) = None

\* Whether State::reduce unwinds: the only unwrap() on a fallible value is
\* the one on value.parse::<u16>().
ReducePanics(a) ==
    /\ a.type = "Set"
    /\ MatchArm(a.name) = "max_level"
    /\ ParseU16(a.value) = None

\* State::reduce with the SetRat arm a copy of the SetLoa arm: it edits
\* set.loa.
reduceRatArmCopied(set, a) ==
    CASE a.type = "Set" -> SetField(set, a.name, a.value)
      [] a.type = "SetLoa" ->
            [set EXCEPT !.loa = SetMember(set.loa, a.name, a.checked)]
      [] a.type = "SetRat" ->
            [set EXCEPT !.loa = SetMember(set.loa, a.name, a.checked)]
      [] a.type = "SetWave" ->
            [set EXCEPT !.wave = SetMember(set.wave, a.name, a.checked)]
      [] a.type = "ClearLoa" -> [set EXCEPT !.loa = Clear(set.loa)]
      [] a.type = "ClearRat" -> [set EXCEPT !.rat = Clear(set.rat)]
      [] a.type = "ClearWave" -> [set EXCEPT !.wave = Clear(set.wave)]

\* State::reduce, the settings of the state it returns.
reduce(set, a) ==
    CASE a.type = "Set" -> SetField(set, a.name, a.value)
      [] a.type = "SetLoa" ->
            [set EXCEPT !.loa = SetMember(set.loa, a.name, a.checked)]
      [] a.type = "SetRat" ->
            [set EXCEPT !.rat = SetMember(set.rat, a.name, a.checked)]
      [] a.type = "SetWave" ->
            [set EXCEPT !.wave = SetMember(set.wave, a.name, a.checked)]
      [] a.type = "ClearLoa" -> [set EXCEPT !.loa = Clear(set.loa)]
      [] a.type = "ClearRat" -> [set EXCEPT !.rat = Clear(set.rat)]
      [] a.type = "ClearWave" -> [set EXCEPT !.wave = Clear(set.wave)]

---------------------------------------------------------------------------
\* The record of the dispatched sequence kept in `ticked`: SetX{n, true}
\* ticks n in X, SetX{n, false} unticks it, ClearX unticks every name in X.
Ticked(t, a) ==
    CASE a.type = "SetLoa" ->
            [t EXCEPT !.loa = IF a.checked THEN @ \cup {a.name} ELSE @ \ {a.name}]
      [] a.type = "SetRat" ->
            [t EXCEPT !.rat = IF a.checked THEN @ \cup {a.name} ELSE @ \ {a.name}]
      [] a.type = "SetWave" ->
            [t EXCEPT !.wave = IF a.checked THEN @ \cup {a.name} ELSE @ \ {a.name}]
      [] a.type = "ClearLoa" -> [t EXCEPT !.loa = {}]
      [] a.type = "ClearRat" -> [t EXCEPT !.rat = {}]
      [] a.type = "ClearWave" -> [t EXCEPT !.wave = {}]
      [] OTHER -> t

\* #[derive(Default)] State
Init ==
    /\ settings = Default
    /\ prev = Default
    /\ action = NoAction
    /\ outcome = "ok"
    /\ steps = 0
    /\ ticked = [loa |-> {}, rat |-> {}, wave |-> {}]
    /\ stored = <<>>

\* The host dispatches one action: it calls reduce on the current state and
\* installs the state reduce returns.  A panic in reduce aborts the
\* application: nothing is installed and nothing is dispatched afterwards.
Dispatch(a) ==
    /\ outcome = "ok"
    /\ prev' = settings
    /\ action' = a
    /\ ticked' = Ticked(ticked, a)
    /\ UNCHANGED stored
    /\ IF ReducePanics(a)
       THEN /\ outcome' = "panic"
            /\ settings' = settings
       ELSE /\ outcome' = "ok"
            /\ settings' = reduce(settings, a)

\* steps counts the dispatched actions up to MaxSteps; MaxSteps + 1 stands
\* for every larger number.
Count == steps' = IF steps <= MaxSteps THEN steps + 1 ELSE steps

\* Any caller: at most MaxSteps actions, each with any name and any value.
DoSet ==
    /\ steps < MaxSteps /\ Count
    /\ \E name \in Keys, value \in Values : Dispatch(Set(name, value))
DoSetLoa ==
    /\ steps < MaxSteps /\ Count
    /\ \E name \in Names, checked \in BOOLEAN : Dispatch(SetLoa(name, checked))
DoSetRat ==
    /\ steps < MaxSteps /\ Count
    /\ \E name \in Names, checked \in BOOLEAN : Dispatch(SetRat(name, checked))
DoSetWave ==
    /\ steps < MaxSteps /\ Count
    /\ \E name \in Names, checked \in BOOLEAN : Dispatch(SetWave(name, checked))
DoClearLoa == steps < MaxSteps /\ Count /\ Dispatch(ClearLoa)
DoClearRat == steps < MaxSteps /\ Count /\ Dispatch(ClearRat)
DoClearWave == steps < MaxSteps /\ Count /\ Dispatch(ClearWave)

Next ==
    \/ DoSet
    \/ DoSetLoa
    \/ DoSetRat
    \/ DoSetWave
    \/ DoClearLoa
    \/ DoClearRat
    \/ DoClearWave

Spec == Init /\ [][Next]_vars

\* A caller that ticks the check boxes of the three named sets, presses
\* their clear buttons and switches the radio option, any number of times.
AnySetRadio ==
    /\ Count
    /\ \E value \in {V_yes, V_no} : Dispatch(Set("radio", value))
AnySetLoa ==
    /\ Count
    /\ \E name \in Names, checked \in BOOLEAN : Dispatch(SetLoa(name, checked))
AnySetRat ==
    /\ Count
    /\ \E name \in Names, checked \in BOOLEAN : Dispatch(SetRat(name, checked))
AnySetWave ==
    /\ Count
    /\ \E name \in Names, checked \in BOOLEAN : Dispatch(SetWave(name, checked))
AnyClearLoa == Count /\ Dispatch(ClearLoa)
AnyClearRat == Count /\ Dispatch(ClearRat)
AnyClearWave == Count /\ Dispatch(ClearWave)

NextSets ==
    \/ AnySetRadio
    \/ AnySetLoa
    \/ AnySetRat
    \/ AnySetWave
    \/ AnyClearLoa
    \/ AnyClearRat
    \/ AnyClearWave

SpecSets == Init /\ [][NextSets]_vars

---------------------------------------------------------------------------
\* #[derive(Serialize, Deserialize)] Settings, in serde's data model: a
\* struct is a map from field names to values, a unit variant is its name,
\* a HashSet is a sequence of its elements in the set's iteration order.

\* The fields of Settings, in declaration order.
SettingsFields ==
    { "atz", "ils", "unlicensed", "microlight", "gliding", "home",
      "hirta_gvs", "obstacle", "max_level", "radio", "format", "overlay",
      "loa", "rat", "wave" }

\* The fields of type Option<_>: a missing one deserializes to None.
OptionFields ==
    { "ils", "unlicensed", "microlight", "gliding", "home", "hirta_gvs",
      "obstacle", "overlay" }

\* No field carries #[serde(default)].
NoDefaultedFields == {}

\* The fields that carry #[serde(default)]: a missing one deserializes to
\* Default::default(), the empty HashSet.
DefaultedFields == { "loa", "rat", "wave" }

\* The elements of a sequence.
Range(q) == { q[i] : i \in DOMAIN q }

\* Serialize for HashSet<String>: the elements once each, in any order.
SerializeSet(hs) ==
    { q \in [1..Cardinality(hs) -> hs] : Range(q) = hs }

\* Deserialize for HashSet<String>: the elements of the sequence collected.
DeserializeSet(q) == Range(q)

\* Serialize for Settings: the representations of s.
Serialize(s) ==
    { [f \in SettingsFields |->
            CASE f = "loa" -> l
              [] f = "rat" -> r
              [] f = "wave" -> w
              [] OTHER -> s[f]] :
        l \in SerializeSet(s.loa), r \in SerializeSet(s.rat),
        w \in SerializeSet(s.wave) }

\* Whether Deserialize for Settings accepts a representation: every field
\* that is neither an Option nor defaulted is present.
Deserializable(repr) ==
    (SettingsFields \ (OptionFields \cup DefaultedFields)) \subseteq DOMAIN repr

\* Deserialize for Settings, on a representation it accepts.
Deserialize(repr) ==
    [f \in SettingsFields |->
        IF f \in {"loa", "rat", "wave"}
        THEN IF f \in DOMAIN repr THEN DeserializeSet(repr[f]) ELSE {}
        ELSE IF f \in DOMAIN repr THEN repr[f] ELSE None]

\* Settings values the host can hold when it saves them.
SavedSamples ==
    { [s EXCEPT !.loa = l, !.rat = r, !.wave = w] :
        s \in { Default,
                [Default EXCEPT !.atz = "Danger", !.ils = Some("Gliding"),
                                !.home = Some(V_Foo), !.max_level = U16_MAX,
                                !.radio = TRUE, !.format = "Competition",
                                !.overlay = Some("AtzDz")],
                [Default EXCEPT !.obstacle = Some("ClassD"),
                                !.home = Some(V_empty), !.max_level = 0,
                                !.format = "RatOnly",
                                !.overlay = Some("FL195")] },
        l \in SUBSET Names, r \in {{}, {"R1", "R2"}}, w \in {{}, {"A"}} }

\* The host holds some settings.
InitSaved ==
    /\ settings \in SavedSamples
    /\ prev = Default
    /\ action = NoAction
    /\ outcome = "ok"
    /\ steps = 0
    /\ ticked = [loa |-> settings.loa, rat |-> settings.rat,
                 wave |-> settings.wave]
    /\ stored = <<>>

\* The host writes the serialized settings.
SaveSettings ==
    /\ outcome \in {"ok", "restored"}
    /\ stored' \in Serialize(settings)
    /\ prev' = settings
    /\ outcome' = "saved"
    /\ UNCHANGED <<settings, action, steps, ticked>>

\* As SaveSettings, by a version of the program whose Settings lacked some
\* of loa, rat and wave.
SaveOlderSettings ==
    /\ outcome \in {"ok", "restored"}
    /\ \E repr \in Serialize(settings) :
       \E absent \in (SUBSET {"loa", "rat", "wave"}) \ {{}} :
            stored' = [f \in SettingsFields \ absent |-> repr[f]]
    /\ prev' = settings
    /\ outcome' = "saved"
    /\ UNCHANGED <<settings, action, steps, ticked>>

\* The application starts again and reads what was written: the settings
\* are the deserialized ones, or the default ones when deserializing fails.
RestoreSettings ==
    /\ outcome = "saved"
    /\ IF Deserializable(stored)
       THEN /\ settings' = Deserialize(stored)
            /\ outcome' = "restored"
       ELSE /\ settings' = Default
            /\ outcome' = "decode_error"
    /\ ticked' = [loa |-> settings'.loa, rat |-> settings'.rat,
                  wave |-> settings'.wave]
    /\ UNCHANGED <<prev, action, steps, stored>>

NextSaved ==
    \/ SaveSettings
    \/ SaveOlderSettings
    \/ RestoreSettings

SpecSaved == InitSaved /\ [][NextSaved]_vars

---------------------------------------------------------------------------
\* Vocabulary of the properties below.

\* The twelve keys the specification lists for Set{name, value}.
RecognizedKeys ==
    { "atz", "ils", "unlicensed", "microlight", "gliding", "hirta_gvs",
      "obstacle", "max_level", "radio", "home", "overlay", "format" }

\* The six optional category fields.
CategoryKeys ==
    { "ils", "unlicensed", "microlight", "gliding", "hirta_gvs", "obstacle" }

\* The classifier table of the specification: token, category.
Classifier ==
    { <<V_classd, "ClassD">>, <<V_classf, "ClassF">>, <<V_classg, "ClassG">>,
      <<V_ctr, "Ctr">>, <<V_danger, "Danger">>,
      <<V_restricted, "Restricted">>, <<V_gsec, "Gliding">> }

ClassifierTokens == { p[1] : p \in Classifier }

\* The number a string of decimal digits denotes.
RECURSIVE DecimalValue(_)
DecimalValue(v) ==
    IF v = <<>> THEN 0
    ELSE DecimalValue(SubSeq(v, 1, Len(v) - 1)) * 10 + DigitVal(v[Len(v)])

\* v is the decimal text of an integer in 0..65535.
IsDecimalU16(v) ==
    /\ v # <<>>
    /\ \A i \in 1..Len(v) : v[i] \in Digits
    /\ Len(v) > 1 => v[1] # "0"
    /\ DecimalValue(v) <= U16_MAX

\* The last dispatched action was Set{name, _}.
IsSet(name) == action.type = "Set" /\ action.name = name

\* The SetLoa/SetRat/SetWave actions and the set each one targets.
ToggleActions ==
    UNION { { SetLoa(n, c), SetRat(n, c), SetWave(n, c) } :
            <<n, c>> \in Names \X BOOLEAN }

Target(s, a) ==
    CASE a.type = "SetLoa" -> s.loa
      [] a.type = "SetRat" -> s.rat
      [] a.type = "SetWave" -> s.wave

---------------------------------------------------------------------------
\* C1: Set{"max_level", v} with v not the decimal text of an integer in
\* 0..65535 does not abort: it reports InvalidNumericInput and leaves every
\* field as it was.
C1_InvalidMaxLevelIsReported ==
    (IsSet("max_level") /\ ~IsDecimalU16(action.value)) =>
        /\ outcome # "panic"
        /\ outcome = "InvalidNumericInput"
        /\ settings = prev

\* C2: reduce fails for no action other than Set with key "max_level": every
\* other action returns a fully defined Settings.
C2_OnlyMaxLevelCanFail ==
    (action.type # "None" /\ ~IsSet("max_level")) =>
        /\ outcome = "ok"
        /\ settings \in Settings

C2_Witness ==
    /\ action = Set("home", V_empty)
    /\ prev.atz = "Danger"
    /\ outcome = "ok"

\* C3 as stated: checking then unchecking a name restores the settings the
\* first of the two actions was given, whatever they were.
C3_ToggleInverseAlways ==
    [][\A n \in Names :
        /\ (action = SetLoa(n, TRUE) /\ action' = SetLoa(n, FALSE)) =>
                settings' = prev
        /\ (action = SetRat(n, TRUE) /\ action' = SetRat(n, FALSE)) =>
                settings' = prev
        /\ (action = SetWave(n, TRUE) /\ action' = SetWave(n, FALSE)) =>
                settings' = prev]_vars

\* C3 amended: checking then unchecking a name leaves the target set equal
\* to the original set without that name, hence restores the settings when
\* the name was not in the set, and changes no other field.
C3_ToggleInverse ==
    [][\A n \in Names :
        /\ (action = SetLoa(n, TRUE) /\ action' = SetLoa(n, FALSE)) =>
                /\ settings' = [prev EXCEPT !.loa = prev.loa \ {n}]
                /\ n \notin prev.loa => settings' = prev
        /\ (action = SetRat(n, TRUE) /\ action' = SetRat(n, FALSE)) =>
                /\ settings' = [prev EXCEPT !.rat = prev.rat \ {n}]
                /\ n \notin prev.rat => settings' = prev
        /\ (action = SetWave(n, TRUE) /\ action' = SetWave(n, FALSE)) =>
                /\ settings' = [prev EXCEPT !.wave = prev.wave \ {n}]
                /\ n \notin prev.wave => settings' = prev]_vars

C3_Witness ==
    /\ steps = 2
    /\ action = SetLoa("A", FALSE)
    /\ "A" \in prev.loa
    /\ settings = Default

\* C4: applying SetX{n, checked} twice gives the settings one application
\* gives; inserting a name that is present and removing a name that is
\* absent leave the settings as they were.
C4_ToggleIdempotent ==
    [][\A a \in ToggleActions :
        /\ (action = a /\ action' = a) => settings' = settings
        /\ (action' = a /\ a.checked /\ a.name \in Target(settings, a)) =>
                settings' = settings
        /\ (action' = a /\ ~a.checked /\ a.name \notin Target(settings, a)) =>
                settings' = settings]_vars

C4_Witness ==
    /\ steps = 2
    /\ action = SetRat("R1", TRUE)
    /\ "R1" \in prev.rat
    /\ settings = prev

\* C5: after ClearLoa the set loa is empty, whatever actions came before and
\* whatever the set held; likewise ClearRat and rat, ClearWave and wave.
C5_ClearEmpties ==
    /\ action = ClearLoa => settings.loa = {}
    /\ action = ClearRat => settings.rat = {}
    /\ action = ClearWave => settings.wave = {}

C5_Witness ==
    /\ action = ClearLoa
    /\ prev.loa = Names
    /\ settings.loa = {}

\* C6: Set{"atz", v} sets atz to the category of v when v is one of the
\* seven classifier tokens and to Ctr otherwise; atz is always an AirType.
C6_AtzClassified ==
    /\ settings.atz \in AirType
    /\ IsSet("atz") =>
        /\ \A p \in Classifier : action.value = p[1] => settings.atz = p[2]
        /\ action.value \notin ClassifierTokens => settings.atz = "Ctr"

C6_Witness ==
    /\ action = Set("atz", V_bogus)
    /\ prev.atz = "Danger"
    /\ settings.atz = "Ctr"

\* C7: Set{k, v} with k one of ils, unlicensed, microlight, gliding,
\* hirta_gvs, obstacle sets field k to Some(t) when v is a classifier token
\* of category t and to None otherwise, clearing a field that was set.
C7_CategoryClassified ==
    (action.type = "Set" /\ action.name \in CategoryKeys) =>
        /\ \A p \in Classifier :
                action.value = p[1] => settings[action.name] = Some(p[2])
        /\ action.value \notin ClassifierTokens => settings[action.name] = None

C7_Witness ==
    /\ action = Set("ils", V_bogus)
    /\ prev.ils = Some("Gliding")
    /\ settings.ils = None

\* C8: Set{name, value} with a name that is not exactly one of the twelve
\* recognized keys changes no field.
C8_UnknownKeyIsNoOp ==
    (action.type = "Set" /\ action.name \notin RecognizedKeys) =>
        /\ outcome = "ok"
        /\ settings = prev

C8_Witness ==
    /\ action = Set("ATZ", V_danger)
    /\ prev.radio
    /\ settings = prev

\* C9: Set{"home", v} gives home == None exactly when v is "no", and
\* home == Some(v) for every other v.
C9_HomeValue ==
    IsSet("home") =>
        /\ settings.home = None <=> action.value = V_no
        /\ action.value # V_no => settings.home = Some(action.value)

C9_Witness ==
    /\ action = Set("home", V_empty)
    /\ prev.home = Some(V_Foo)
    /\ settings.home = Some(V_empty)

\* C10: Set{"radio", v} gives radio == true exactly when v is "yes",
\* whatever radio was before.
C10_RadioValue ==
    IsSet("radio") => (settings.radio <=> action.value = V_yes)

C10_Witness ==
    /\ action = Set("radio", V_Yes)
    /\ prev.radio
    /\ ~settings.radio

\* C11: Set{"format", v} gives RatOnly for "ratonly", Competition for
\* "competition" and OpenAir for every other v, whatever format was before.
C11_FormatValue ==
    IsSet("format") =>
        /\ action.value = V_ratonly => settings.format = "RatOnly"
        /\ action.value = V_competition => settings.format = "Competition"
        /\ action.value \notin {V_ratonly, V_competition} =>
                settings.format = "OpenAir"

C11_Witness ==
    /\ action = Set("format", V_bogus)
    /\ prev.format = "Competition"
    /\ settings.format = "OpenAir"

\* C12: Set{"overlay", v} gives Some(FL195) for "fl195", Some(FL105) for
\* "fl105", Some(AtzDz) for "atzdz" and None for every other v, removing an
\* overlay that was selected.
C12_OverlayValue ==
    IsSet("overlay") =>
        /\ action.value = V_fl195 => settings.overlay = Some("FL195")
        /\ action.value = V_fl105 => settings.overlay = Some("FL105")
        /\ action.value = V_atzdz => settings.overlay = Some("AtzDz")
        /\ action.value \notin {V_fl195, V_fl105, V_atzdz} =>
                settings.overlay = None

C12_Witness ==
    /\ action = Set("overlay", V_bogus)
    /\ prev.overlay = Some("FL105")
    /\ settings.overlay = None

\* C14: the initial settings have atz == Ctr, the six optional category
\* fields and home and overlay None, max_level == 660, radio == false,
\* format == OpenAir, and loa, rat and wave empty.
C14_DefaultSettings ==
    steps = 0 =>
        /\ settings.atz = "Ctr"
        /\ \A k \in CategoryKeys : settings[k] = None
        /\ settings.home = None
        /\ settings.max_level = 660
        /\ settings.radio = FALSE
        /\ settings.format = "OpenAir"
        /\ settings.overlay = None
        /\ settings.loa = {} /\ settings.rat = {} /\ settings.wave = {}
        /\ settings \in Settings

C14_Witness ==
    /\ steps = 0
    /\ action = NoAction
    /\ settings.max_level = 660

\* C15: Set{"max_level", v} with v the decimal text of n in 0..65535 gives
\* max_level == n, and max_level is an integer in 0..65535 in every
\* reachable state.
C15_MaxLevelParsed ==
    /\ settings.max_level \in 0..U16_MAX
    /\ (IsSet("max_level") /\ IsDecimalU16(action.value)) =>
        /\ outcome = "ok"
        /\ settings.max_level = DecimalValue(action.value)

C15_Witness ==
    /\ action = Set("max_level", V_65535)
    /\ prev.max_level = 0
    /\ settings.max_level = U16_MAX

\* C17: last toggle wins.  After any sequence of actions from the default
\* settings, a name is in rat exactly when the sequence holds a
\* SetRat{name, true} with no later SetRat{name, false} and no later
\* ClearRat; likewise for loa and wave.
C17_LastToggleWins ==
    \A n \in Names :
        /\ n \in settings.loa <=> n \in ticked.loa
        /\ n \in settings.rat <=> n \in ticked.rat
        /\ n \in settings.wave <=> n \in ticked.wave

\* The end of Set{radio, yes}, SetRat{R1, true}, SetRat{R2, true},
\* SetRat{R1, false}, in this or another order of the first three.
C17_Witness ==
    /\ action = SetRat("R1", FALSE)
    /\ prev.rat = {"R1", "R2"}
    /\ prev.radio
    /\ settings.radio
    /\ settings.rat = {"R2"}
    /\ settings.loa = {} /\ settings.wave = {}

\* The fifteen fields of Settings.
FieldNames ==
    { "atz", "ils", "unlicensed", "microlight", "gliding", "home",
      "hirta_gvs", "obstacle", "max_level", "radio", "format", "overlay",
      "loa", "rat", "wave" }

\* The last action left every field outside `targets` as it was.
OnlyChanged(targets) ==
    \A f \in FieldNames \ targets : settings[f] = prev[f]

\* C18: every action changes at most its own target field.  Set{k, v} with
\* a recognized key k leaves every field other than k unchanged; SetLoa and
\* ClearLoa change only loa, SetRat and ClearRat only rat, SetWave and
\* ClearWave only wave.
C18_OnlyTargetChanges ==
    /\ (action.type = "Set" /\ action.name \in RecognizedKeys) =>
            OnlyChanged({action.name})
    /\ action.type \in {"SetLoa", "ClearLoa"} => OnlyChanged({"loa"})
    /\ action.type \in {"SetRat", "ClearRat"} => OnlyChanged({"rat"})
    /\ action.type \in {"SetWave", "ClearWave"} => OnlyChanged({"wave"})

C18_Witness ==
    /\ action = SetRat("R1", TRUE)
    /\ prev.loa = {"R1"}
    /\ settings.loa = {"R1"}
    /\ settings.rat = {"R1"}
    /\ settings.wave = {}

\* The seven categories the classifier can produce.
ClassifierTypes == { p[2] : p \in Classifier }

\* C19: in every state reachable from the default settings, atz is one of
\* ClassD, ClassF, ClassG, Ctr, Danger, Restricted, Gliding and each of the
\* six optional category fields is None or one of those seven; no other
\* AirType appears in a settings field.
C19_OnlyClassifierTypes ==
    /\ settings.atz \in ClassifierTypes
    /\ \A k \in CategoryKeys : settings[k] \in Option(ClassifierTypes)
    /\ ClassifierTypes =
            AirType \ { "ClassA", "ClassB", "ClassC", "ClassE", "Cta", "Matz",
                        "Other", "Prohibited", "Rmz", "Tmz" }

C19_Witness ==
    /\ action = Set("obstacle", V_gsec)
    /\ settings.obstacle = Some("Gliding")
    /\ settings.atz = "Restricted"

\* C20: in every state reachable from the default settings home is never
\* Some("no"), while Set{"home", v} with any other v, the empty string
\* included, reaches home == Some(v).
C20_HomeNeverNo ==
    /\ settings.home # Some(V_no)
    /\ \A v \in Values \ {V_no} :
            action = Set("home", v) => settings.home = Some(v)

C20_Witness ==
    /\ action = Set("home", V_no)
    /\ prev.home = Some(V_empty)
    /\ settings.home = None

\* C16: serialization round trip.  Deserializing the serialized form of any
\* settings gives settings equal to them, empty loa, rat and wave included;
\* deserializing a form without loa, rat or wave succeeds and gives that set
\* empty.
C16_RoundTrip ==
    /\ outcome # "decode_error"
    /\ (outcome = "restored" /\ DOMAIN stored = FieldNames) => settings = prev
    /\ outcome = "restored" =>
            \A f \in {"loa", "rat", "wave"} :
                IF f \in DOMAIN stored
                THEN settings[f] = prev[f]
                ELSE settings[f] = {}

C16_Witness ==
    /\ outcome = "restored"
    /\ DOMAIN stored = FieldNames \ {"loa"}
    /\ stored.rat = <<"R2", "R1">>
    /\ prev.loa = Names
    /\ settings.loa = {}
    /\ settings.rat = {"R1", "R2"}
    /\ settings.wave = {}

=============================================================================
